---- MODULE Spec2Model ----
(***************************************************************************)
(* A model of WebScraping_Crawler.py: MultiPage_WebCrawler.get_articles    *)
(* and MultiPage_WebCrawler.get_pages_url_list.                            *)
(*                                                                         *)
(* Python values are tagged with their type, so that comparisons between   *)
(* values of different types behave as in Python (unequal, never an        *)
(* error).  A Python str is a sequence of one-character strings.           *)
(* The DOM query engine and the fetch layer are the environment: a fetch   *)
(* either raises or serves a document, and a document answers the queries  *)
(* the crawler makes with its configured selectors.                        *)
(***************************************************************************)
EXTENDS Integers, Sequences, FiniteSets, TLC

(* ------------------------------ bounds -------------------------------- *)

\* page indices of a direct get_pages_url_list call are drawn from 0..MaxPage
MaxPage == 2
\* the largest step_page of a direct get_pages_url_list call
MaxStep == 2
\* the largest end_page of the page range handed to get_articles
MaxArticlePage == 1
\* the longest contents_list handed to insert_contents_to_mongoDB
MaxInsert == 3

(* --------------------------- Python values ---------------------------- *)

None == [type |-> "NoneType"]
Str(s) == [type |-> "str", val |-> s]
List(q) == [type |-> "list", val |-> q]
Dict(f) == [type |-> "dict", val |-> f]

\* Python ==: values of different types are unequal
PyEq(a, b) == a.type = b.type /\ (a.type = "NoneType" \/ a.val = b.val)

\* Python truth value: None, '', [] and {} are falsy
Truthy(v) ==
    CASE v.type = "NoneType" -> FALSE
      [] v.type = "dict" -> DOMAIN v.val # {}
      [] OTHER -> v.val # <<>>

\* Python `x in lst`
PyIn(x, lst) == \E i \in 1..Len(lst) : PyEq(lst[i], x)

\* list.remove(x): removes the first element equal to x
RECURSIVE ListRemove(_, _)
ListRemove(lst, x) ==
    IF lst = <<>> THEN <<>>
    ELSE IF PyEq(Head(lst), x) THEN Tail(lst)
    ELSE <<Head(lst)>> \o ListRemove(Tail(lst), x)

Range(q) == {q[i] : i \in 1..Len(q)}

(* ------------------------------ strings ------------------------------- *)

StartsWith(s, p) == Len(s) >= Len(p) /\ SubSeq(s, 1, Len(p)) = p
EndsWith(s, p) == Len(s) >= Len(p) /\ SubSeq(s, Len(s) - Len(p) + 1, Len(s)) = p

LowerChar(c) ==
    CASE c = "J" -> "j" [] c = "P" -> "p" [] c = "G" -> "g" [] c = "N" -> "n"
      [] c = "E" -> "e" [] c = "B" -> "b" [] OTHER -> c
Lower(s) == [i \in 1..Len(s) |-> LowerChar(s[i])]

\* str.split(): the maximal runs of non-whitespace characters
RECURSIVE SplitFrom(_, _)
SplitFrom(s, cur) ==
    IF s = <<>> THEN (IF cur = <<>> THEN <<>> ELSE <<cur>>)
    ELSE IF Head(s) = " "
         THEN (IF cur = <<>> THEN <<>> ELSE <<cur>>) \o SplitFrom(Tail(s), <<>>)
         ELSE SplitFrom(Tail(s), Append(cur, Head(s)))
Split(s) == SplitFrom(s, <<>>)

\* ' '.join(parts)
RECURSIVE Join(_)
Join(parts) ==
    IF parts = <<>> THEN <<>>
    ELSE IF Len(parts) = 1 THEN parts[1]
    ELSE parts[1] \o <<" ">> \o Join(Tail(parts))

\* str(i) for an integer i
Digit(d) == <<"0", "1", "2", "3", "4", "5", "6", "7", "8", "9">>[d + 1]
RECURSIVE NatStr(_)
NatStr(n) == IF n < 10 THEN <<Digit(n)>> ELSE NatStr(n \div 10) \o <<Digit(n % 10)>>
IntStr(i) == IF i < 0 THEN <<"-">> \o NatStr(-i) ELSE NatStr(i)

\* template.format(i): the replacement field {0} is one token of the template
RECURSIVE Format(_, _)
Format(template, i) ==
    IF template = <<>> THEN <<>>
    ELSE (IF Head(template) = "{0}" THEN IntStr(i) ELSE <<Head(template)>>)
         \o Format(Tail(template), i)

\* first position of character c in s, 0 when absent
IndexOf(s, c) ==
    IF \E i \in 1..Len(s) : s[i] = c
    THEN CHOOSE i \in 1..Len(s) : s[i] = c /\ \A j \in 1..(i - 1) : s[j] # c
    ELSE 0

SchemeChars == {"h", "t", "p", "s", "f", "m", "a", "i", "l", "o", "b", "x"}

\* urllib.parse: the URL begins with scheme ":"
HasScheme(u) ==
    LET k == IndexOf(u, ":")
    IN  k > 1 /\ \A j \in 1..(k - 1) : u[j] \in SchemeChars

\* urllib.parse.urljoin(base, url) for a base scheme://netloc/path without
\* query or fragment and a url without dot segments, query or fragment
urljoin(base, url) ==
    LET k == IndexOf(base, ":")
        bscheme == SubSeq(base, 1, k - 1)
        rest == SubSeq(base, k + 3, Len(base))
        n == IndexOf(rest, "/")
        bnetloc == IF n = 0 THEN rest ELSE SubSeq(rest, 1, n - 1)
        bpath == IF n = 0 THEN <<>> ELSE SubSeq(rest, n, Len(rest))
        lastslash == IF \E i \in 1..Len(bpath) : bpath[i] = "/"
                     THEN CHOOSE i \in 1..Len(bpath) :
                              bpath[i] = "/" /\ \A j \in (i + 1)..Len(bpath) : bpath[j] # "/"
                     ELSE 0
        bdir == IF lastslash = 0 THEN <<"/">> ELSE SubSeq(bpath, 1, lastslash)
        root == bscheme \o <<":", "/", "/">> \o bnetloc
    IN  IF url = <<>> THEN base
        ELSE IF HasScheme(url) THEN url
        ELSE IF StartsWith(url, <<"/", "/">>) THEN bscheme \o <<":">> \o url
        ELSE IF StartsWith(url, <<"/">>) THEN root \o url
        ELSE root \o bdir \o url

(* ------------------------- range and iteration ------------------------ *)

\* the outcome of a call: a value, or an exception raised
Ok(v) == [kind |-> "ok", val |-> v]
Raise(e) == [kind |-> "raise", exc |-> e]

\* list(range(start, stop, step)); ValueError when step is zero
RECURSIVE RangeFrom(_, _, _)
RangeFrom(i, stop, step) ==
    IF (step > 0 /\ i >= stop) \/ (step < 0 /\ i <= stop) THEN <<>>
    ELSE <<i>> \o RangeFrom(i + step, stop, step)
PyRange(start, stop, step) ==
    IF step = 0 THEN Raise("ValueError") ELSE Ok(RangeFrom(start, stop, step))

\* tqdm(iterable) iterates the iterable unchanged
tqdm(iterable) == iterable

(* ----------------------------- environment ---------------------------- *)

\* self.url, the listing-page template "http://x/p{0}"
URL_TEMPLATE == <<"h", "t", "t", "p", ":", "/", "/", "x", "/", "p", "{0}">>

\* hrefs found on listing pages
HrefAbsA == <<"h", "t", "t", "p", ":", "/", "/", "x", "/", "a">>
HrefRootA == <<"/", "a">>
HrefRelA == <<"a">>
HrefRelHttp == <<"h", "t", "t", "p", "b">>

\* what soup.find_all('a', class_=a_class, href=True) yields on a listing page:
\* the href values of the matching anchors, in document order
ListingDocs ==
    { <<>>, <<HrefRootA>>, <<HrefRootA, HrefAbsA>>, <<HrefRelA, HrefRootA>>,
      <<HrefRelHttp, HrefRootA>> }

\* a fetch that raises (requests.get or driver.get fails)
FetchError == [kind |-> "raise", exc |-> "FetchError"]
\* a request that is answered without an exception
Acknowledged == [kind |-> "ok"]

(* ------------------------------- state -------------------------------- *)

VARIABLES
    call,             \* the function invoked: "get_articles", "get_pages_url_list"
                      \* or "insert_contents_to_mongoDB"
    tag_dict,         \* the argument of get_articles
    show_progressbar, \* self.show_progressbar (the argument, for the insert)
    gp_args,          \* the arguments of the running get_pages_url_list call
    page_iter,        \* the page indices the listing loop has still to visit
    pages_list,       \* get_pages_url_list: pages_list
    articles_url,     \* get_articles: articles_url (Unbound until assigned)
    art_idx,          \* position of the article loop in articles_url
    soup_sep,         \* get_articles: soup_sep, the last article document
    title_return, content_return, banner_return, image_return,
    contents,         \* get_articles: contents
    diff,             \* get_articles: diff
    stdout,           \* what has been printed
    result,           \* what the call handed to its caller: Ok(value) or Raise(exc)
    fetched,          \* the log of fetches: the URL requested and what was served
    contents_list,    \* insert_contents_to_mongoDB: the argument contents_list
    client,           \* insert_contents_to_mongoDB: client (Unbound until assigned)
    insert_idx,       \* position of the insert loop in contents_list
    inserts,          \* the log of insert_one calls: the document and the answer
    html_check,       \* self.html_check: static mode (requests) or rendered mode
    as_connector,     \* self.as_connector
    driver,           \* self.driver: None or the browser session
    self_soup,        \* self.soup (Unbound until the constructor assigns it)
    pc                \* "new", "raised" (by the constructor), "start", "pages_loop",
                      \* "articles_loop", "insert_loop" or "done"

vars == <<call, tag_dict, show_progressbar, gp_args, page_iter, pages_list,
          articles_url, art_idx, soup_sep, title_return, content_return,
          banner_return, image_return, contents, diff, stdout, result, fetched,
          contents_list, client, insert_idx, inserts, html_check, as_connector,
          driver, self_soup, pc>>

\* a local variable that has not been assigned
Unbound == [type |-> "unbound"]
\* the call has not returned yet
Running == [kind |-> "running"]

articleVars == <<soup_sep, title_return, content_return, banner_return,
                 image_return, contents, diff>>

sinkVars == <<contents_list, client, insert_idx, inserts>>

setupVars == <<html_check, as_connector, self_soup>>

crawlVars == <<tag_dict, gp_args, page_iter, pages_list, articles_url, art_idx,
               articleVars, fetched>>

(* --------------------------- configuration ---------------------------- *)

PageKeys ==
    <<"start_page", "end_page", "step_page", "a_class_in_PageList",
      "custom_pageindex_list">>
ContentKeys ==
    <<"title_tag_in_ArticlePage", "title_class_in_ArticlePage",
      "content_area_tag_in_ArticlePage", "content_area_class_in_ArticlePage">>
BannerKeys == <<"banner_tag_in_ArticlePage", "banner_class_in_ArticlePage">>
ImageKeys ==
    <<"content_area_tag_in_ArticlePage", "content_area_class_in_ArticlePage">>
Keys == Range(PageKeys) \cup Range(ContentKeys) \cup Range(BannerKeys)

\* the example dictionary of the docstring, with the given page range
WebTag(start, end, step, custom) ==
    [k \in Keys |->
        CASE k = "start_page" -> start
          [] k = "end_page" -> end
          [] k = "step_page" -> step
          [] k = "custom_pageindex_list" -> custom
          [] k = "a_class_in_PageList" -> "a_class"
          [] k = "title_tag_in_ArticlePage" -> "h1"
          [] k = "title_class_in_ArticlePage" -> "title_class"
          [] k = "content_area_tag_in_ArticlePage" -> "div"
          [] k = "content_area_class_in_ArticlePage" -> "container"
          [] k = "banner_tag_in_ArticlePage" -> "src"
          [] k = "banner_class_in_ArticlePage" -> "hero-img"]

Without(f, k) == [x \in DOMAIN f \ {k} |-> f[x]]

\* evaluating d[k] for each of the keys raises KeyError when one is absent
MissingKey(d, keys) ==
    IF \E i \in 1..Len(keys) : keys[i] \notin DOMAIN d.val
    THEN Raise("KeyError")
    ELSE Ok(TRUE)

CustomLists == {None, List(<<>>), List(<<2>>), List(<<2, 0>>), List(<<1, 1>>)}

(* ------------------------- get_pages_url_list ------------------------- *)

\* a numeric range that stops before end_page: range(start_page, end_page, step_page)
PageIndicesExclusiveEnd(args, progress) ==
    IF Truthy(args.custom_pageindex_list)
    THEN Ok(args.custom_pageindex_list.val)
    ELSE PyRange(args.start_page, args.end_page, args.step_page)

\* the iterable of the listing loop: the custom list when it is truthy,
\* else range(start_page, end_page+1, step_page)
PageIndices(args, progress) ==
    IF progress
    THEN IF Truthy(args.custom_pageindex_list)
         THEN Ok(tqdm(args.custom_pageindex_list.val))
         ELSE LET r == PyRange(args.start_page, args.end_page + 1, args.step_page)
              IN  IF r.kind = "raise" THEN r ELSE Ok(tqdm(r.val))
    ELSE IF Truthy(args.custom_pageindex_list)
         THEN Ok(args.custom_pageindex_list.val)
         ELSE PyRange(args.start_page, args.end_page + 1, args.step_page)

\* one anchor: a href that does not start with 'http' is joined to the page URL
ResolveHref(url, href) ==
    IF ~StartsWith(href, <<"h", "t", "t", "p">>) THEN urljoin(url, href) ELSE href

\* the inner loop over the anchors of one listing page
CollectHrefs(url, anchors) ==
    [k \in 1..Len(anchors) |-> ResolveHref(url, anchors[k])]

\* the orders in which list(set(...)) may enumerate a set
Orderings(S) == {q \in [1..Cardinality(S) -> S] : Range(q) = S}

\* a return of pages_list as it is, without the pass through set()
DedupListsKeepAll(lst) == {lst}

\* list(set(pages_list)): the set's elements, once each, in some order
DedupLists(lst) == Orderings(Range(lst))

(* ------------------------- article documents -------------------------- *)

\* soup.find(...) found nothing (None)
NoElem == [found |-> FALSE]
\* the element the title selector matches, with its stripped_strings
TitleElem(strings) == [found |-> TRUE, stripped_strings |-> strings]
\* an element with its .text
TextElem(text) == [found |-> TRUE, text |-> text]
\* the element the content-area selector matches: its .text and the
\* attributes of the img elements in it, in document order
AreaElem(text, imgs) == [found |-> TRUE, text |-> text, imgs |-> imgs]
\* an img element with its attributes
ImgElem(attrs) == [found |-> TRUE, attrs |-> attrs]

SrcBanner == <<"b", ".", "j", "p", "g">>
SrcPhoto == <<"p", ".", "p", "n", "g">>
SrcUpper == <<"B", ".", "J", "P", "G">>
SrcGif == <<"g", ".", "g", "i", "f">>

WithSrc(src) == [a \in {"src"} |-> src]
NoSrc == [a \in {"data-src"} |-> SrcPhoto]

\* a document, as the answers to the queries the crawler makes
Doc(t, h, f, c, b) ==
    [title_el |-> t, head_title |-> h, first_el |-> f, content_el |-> c,
     banner_img |-> b]

TextCD == <<"c", " ", "d">>
TextWV == <<"w", " ", " ", "v">>
TextBlank == <<" ">>
TextHi == <<"H", "i">>

BaseTitle == TitleElem(<< <<"T">> >>)
BaseHead == TextElem(TextHi)
BaseFirst == TextElem(TextWV)
BaseArea == AreaElem(TextCD, <<WithSrc(SrcBanner), WithSrc(SrcPhoto)>>)
BaseBanner == ImgElem(WithSrc(SrcBanner))

TitleEls == {NoElem, TitleElem(<<>>), TitleElem(<< <<"A">>, <<"B">> >>)}
HeadTitles == {NoElem, TextElem(<<>>)}
AreaEls ==
    { NoElem,
      AreaElem(TextBlank, <<>>),
      AreaElem(<<>>, <<WithSrc(SrcBanner)>>),
      AreaElem(TextCD, <<>>),
      AreaElem(TextCD, <<WithSrc(SrcBanner), WithSrc(SrcPhoto), WithSrc(SrcBanner)>>),
      AreaElem(TextCD, <<WithSrc(SrcGif), WithSrc(SrcUpper)>>),
      AreaElem(TextCD, <<WithSrc(SrcPhoto), NoSrc>>) }
BannerImgs == {NoElem, ImgElem(NoSrc), ImgElem(WithSrc(SrcUpper))}

\* the documents article pages serve
Docs ==
    {Doc(BaseTitle, BaseHead, BaseFirst, BaseArea, BaseBanner)}
    \cup {Doc(t, BaseHead, BaseFirst, BaseArea, BaseBanner) : t \in TitleEls}
    \cup {Doc(NoElem, h, BaseFirst, BaseArea, BaseBanner) : h \in HeadTitles}
    \cup {Doc(BaseTitle, h, BaseFirst, NoElem, BaseBanner) : h \in HeadTitles}
    \cup {Doc(t, BaseHead, TextElem(TextBlank), BaseArea, BaseBanner) :
             t \in {NoElem, BaseTitle}}
    \cup {Doc(BaseTitle, BaseHead, f, NoElem, BaseBanner) :
             f \in {BaseFirst, TextElem(TextBlank)}}
    \cup {Doc(BaseTitle, BaseHead, BaseFirst, c, BaseBanner) : c \in AreaEls}
    \cup {Doc(BaseTitle, BaseHead, BaseFirst, BaseArea, b) : b \in BannerImgs}
    \cup {Doc(t, BaseHead, BaseFirst, BaseArea, NoElem) :
             t \in {TitleElem(<<>>)}}
    \cup {Doc(BaseTitle, BaseHead, BaseFirst, AreaElem(TextBlank, <<>>), NoElem),
          Doc(NoElem, NoElem, NoElem, NoElem, NoElem)}

(* ------------------------------ extraction ---------------------------- *)

\* self.category and self.owner_source
CATEGORY == "healthcare"
OWNER_SOURCE == "Bangkok Hospital"

\* the try block of _local_get_content_sep: both queries must match
ContentSepTry(soup) ==
    IF ~soup.title_el.found \/ ~soup.content_el.found
    THEN Raise("AttributeError")
    ELSE Ok([title |-> Str(Join(soup.title_el.stripped_strings)),
             content |-> List(Split(soup.content_el.text))])

\* the except block of _local_get_content_sep: soup.title.text and
\* soup.find().text.split(); a missing element raises out of the function
ContentSepExcept(soup) ==
    IF ~soup.head_title.found \/ ~soup.first_el.found
    THEN Raise("AttributeError")
    ELSE Ok([title |-> Str(soup.head_title.text),
             content |-> List(Split(soup.first_el.text))])

_local_get_content_sep(soup) ==
    IF ContentSepTry(soup).kind = "ok" THEN ContentSepTry(soup)
    ELSE ContentSepExcept(soup)

\* soup.find('img', class_=banner_class)[banner_tag]
_local_get_banner_image_sep(soup, banner_tag) ==
    IF ~soup.banner_img.found THEN Raise("TypeError")
    ELSE IF banner_tag \notin DOMAIN soup.banner_img.attrs THEN Raise("KeyError")
    ELSE Ok(Str(soup.banner_img.attrs[banner_tag]))

IsImageSrc(src) ==
    \/ EndsWith(Lower(src), <<".", "j", "p", "g">>)
    \/ EndsWith(Lower(src), <<".", "j", "p", "e", "g">>)
    \/ EndsWith(Lower(src), <<".", "p", "n", "g">>)

RECURSIVE ImageSrcs(_)
ImageSrcs(imgs) ==
    IF imgs = <<>> THEN <<>>
    ELSE (IF IsImageSrc(Head(imgs)["src"]) THEN <<Str(Head(imgs)["src"])>> ELSE <<>>)
         \o ImageSrcs(Tail(imgs))

\* the img['src'] values of the image area that end in .jpg, .jpeg or .png
_local_get_images_sep(soup) ==
    IF ~soup.content_el.found THEN Raise("AttributeError")
    ELSE IF \E i \in 1..Len(soup.content_el.imgs) :
                "src" \notin DOMAIN soup.content_el.imgs[i]
    THEN Raise("KeyError")
    ELSE Ok(List(ImageSrcs(soup.content_el.imgs)))

\* if banner_return in image_return: image_return.remove(banner_return)
RemoveBanner(banner, images) ==
    IF PyIn(banner, images.val) THEN List(ListRemove(images.val, banner)) ELSE images

\* a dictionary whose banner is the one the pass before left in banner_return
ArticleRecordStaleBanner(url, title, content, banner, images) ==
    [url |-> url, category |-> CATEGORY, title |-> title.val,
     owner_source |-> OWNER_SOURCE, content |-> Join(content.val),
     banner |-> banner_return, image |-> images.val]

\* the dictionary appended to contents
ArticleRecord(url, title, content, banner, images) ==
    [url |-> url, category |-> CATEGORY, title |-> title.val,
     owner_source |-> OWNER_SOURCE, content |-> Join(content.val),
     banner |-> banner, image |-> images.val]

\* one pass of the body of the article loop (the try block and its except):
\* the locals after the pass and how the pass ended
ArticleBody(url, served, td, loc) ==
    LET Fail(l) == [loc |-> l, outcome |-> "fail"]
        Skip(l) == [loc |-> l, outcome |-> "skip"]
    IN
    IF served.kind = "raise" THEN Fail(loc)
    ELSE LET l0 == [loc EXCEPT !.soup_sep = served.val] IN
    IF MissingKey(td, ContentKeys).kind = "raise" THEN Fail(l0)
    ELSE LET cs == _local_get_content_sep(l0.soup_sep) IN
    IF cs.kind = "raise" THEN Fail(l0)
    ELSE LET l1 == [l0 EXCEPT !.title_return = cs.val.title,
                              !.content_return = cs.val.content] IN
    IF PyEq(l1.title_return, Str(<<>>)) THEN Skip(l1)
    ELSE IF PyEq(l1.content_return, Str(<<>>)) THEN Skip(l1)
    ELSE IF MissingKey(td, BannerKeys).kind = "raise" THEN Fail(l1)
    ELSE LET b == _local_get_banner_image_sep(l1.soup_sep,
                                              td.val["banner_tag_in_ArticlePage"]) IN
    IF b.kind = "raise" THEN Fail(l1)
    ELSE LET l2 == [l1 EXCEPT !.banner_return = b.val] IN
    IF MissingKey(td, ImageKeys).kind = "raise" THEN Fail(l2)
    ELSE LET im == _local_get_images_sep(l2.soup_sep) IN
    IF im.kind = "raise" THEN Fail(l2)
    ELSE LET l3 == [l2 EXCEPT !.image_return = RemoveBanner(l2.banner_return, im.val)] IN
    [loc |-> l3, outcome |-> "record",
     record |-> ArticleRecord(url, l3.title_return, l3.content_return,
                              l3.banner_return, l3.image_return)]

(* ------------------------------ fetching ------------------------------ *)

\* the page a new Chrome session shows, and the page the session of a caller
\* who hands in a driver is on
Blank == <<"d", "a", "t", "a", ":", ",">>
PageGiven == <<"h", "t", "t", "p", ":", "/", "/", "x", "/", "s">>

\* what page_source has answered for the session's current document: the
\* anchors of a listing query and the answers of the article queries
NotRead == [listing |-> Unbound, article |-> Unbound]

\* the browser session: the page it is on, the driver.get calls made on it,
\* and what its current document has answered
WebDriver(page) ==
    [type |-> "WebDriver", page |-> page, gets |-> <<>>, source |-> NotRead]

\* lines 120-128: webdriver.Chrome(options=options)
NewChrome == WebDriver(Blank)

\* driver.get(url): the session loads the page of url
DriverGet(d, url) ==
    [d EXCEPT !.page = url, !.gets = Append(@, url), !.source = NotRead]

\* line 119: if not self.driver
NoDriver(d) == d.type = "NoneType"

\* a session that is navigated whatever as_connector says
SessionBeforeAlwaysGet(d, url) == DriverGet(d, url)

\* lines 132-133 and 272-273: if not as_connector: self.driver.get(url)
SessionBefore(d, url) == IF ~as_connector THEN DriverGet(d, url) ELSE d

\* lines 238-241 and 266-269: local_url = url if url else self.url
LocalUrl(url) == IF url # <<>> THEN url ELSE URL_TEMPLATE

\* the documents a page can serve to a query of the given kind
Contents(kind) == IF kind = "listing" THEN ListingDocs ELSE Docs

\* driver.page_source parsed and queried: the session's current document
\* answers as it did before, when it was asked before
PageSource(d, kind) ==
    IF d.source[kind] # Unbound
    THEN {[served |-> d.source[kind], page |-> d.page, driver |-> d]}
    ELSE {[served |-> Ok(c), page |-> d.page,
           driver |-> [d EXCEPT !.source[kind] = Ok(c)]] : c \in Contents(kind)}

\* lines 226-250: requests.get(local_url); the session is not used
_local_html_webscraping(kind, url) ==
    {[served |-> Ok(c), page |-> LocalUrl(url), driver |-> driver] :
        c \in Contents(kind)}
    \cup {[served |-> FetchError, page |-> LocalUrl(url), driver |-> driver]}

\* lines 252-279: driver.get(local_url) unless as_connector, then
\* driver.page_source; either call may raise
_local_not_html_webscraping(kind, url) ==
    LET d == SessionBefore(driver, LocalUrl(url))
    IN  PageSource(d, kind)
        \cup {[served |-> FetchError, page |-> d.page, driver |-> d]}

\* lines 281-297: what a fetch of url may yield (the document served, the
\* page it is the document of, and the session after the fetch); kind tells
\* which queries the caller puts to the document
_local_web_scraping(kind, url) ==
    IF html_check THEN _local_html_webscraping(kind, url)
    ELSE _local_not_html_webscraping(kind, url)

(* ------------------------------- actions ------------------------------ *)

\* a guard that tests for None only, and lets an empty dictionary through
NoTagDictIsNone(td) == td.type = "NoneType"

\* line 491: if not tag_dict
NoTagDict(td) == ~Truthy(td)

\* lines 539-540: contents.append({...}) at the end of a pass that raised
\* nothing and skipped nothing
ContentsAfter(c, r) ==
    IF r.outcome = "record" THEN List(Append(c.val, r.record)) ELSE c

\* a loop whose except clause swallows the exception without recording the URL
DiffAfterNoAppend(d, r, url) == d

\* lines 543-544: except: diff.append(articles)
DiffAfter(d, r, url) ==
    IF r.outcome = "fail" THEN List(Append(d.val, url)) ELSE d

\* a return of the pair (contents, diff)
ReturnBoth(c, d) == [type |-> "tuple", val |-> <<c, d>>]

\* line 589: return contents
ReturnValue(c, d) == c

ResolutionDiagnostic ==
    [text |-> "get_pages_url_list() can't get articles url. Please check web tag for",
     arg |-> URL_TEMPLATE]
FailureReport(d) == [text |-> "different url web type from the other are :", arg |-> d]

\* the call ends: with a value returned or an exception raised to the caller
Finish(res) == pc' = "done" /\ result' = res

\* lines 507-508 and 545-546: the iterable of the article loop
ArticleIter ==
    IF show_progressbar THEN tqdm(articles_url.val) ELSE articles_url.val

\* lines 507-508 and 545-546: the article loop starts on articles_url, which
\* is unbound when the resolution raised
EnterArticleLoop(au) ==
    /\ articles_url' = au
    /\ IF au.type = "unbound"
       THEN Finish(Raise("UnboundLocalError")) /\ UNCHANGED art_idx
       ELSE /\ pc' = "articles_loop"
            /\ art_idx' = 1
            /\ UNCHANGED result

\* lines 504-505: the except clause around the resolution
ResolutionRaised ==
    /\ stdout' = Append(stdout, ResolutionDiagnostic)
    /\ EnterArticleLoop(articles_url)

\* the constructor raises to its caller: there is no object to call
ConstructorRaised(exc) == pc' = "raised" /\ result' = exc

\* SinglePage_WebCrawler.__init__, lines 104-136, inherited by
\* MultiPage_WebCrawler: the attributes, the session when rendered mode has
\* none (webdriver.Chrome may raise), and the first fetch of self.url into
\* self.soup
__init__ ==
    /\ pc = "new"
    /\ IF html_check
       THEN /\ UNCHANGED driver
            /\ \E answer \in {Acknowledged, FetchError} :
                  IF answer.kind = "raise"
                  THEN ConstructorRaised(answer) /\ UNCHANGED self_soup
                  ELSE /\ self_soup' = [url |-> URL_TEMPLATE, page |-> URL_TEMPLATE]
                       /\ pc' = "start"
                       /\ UNCHANGED result
       ELSE LET d0 == IF NoDriver(driver) THEN NewChrome ELSE driver
                d1 == SessionBefore(d0, URL_TEMPLATE)
            IN  \/ /\ NoDriver(driver)
                   /\ ConstructorRaised(Raise("WebDriverException"))
                   /\ UNCHANGED <<driver, self_soup>>
                \/ /\ driver' = d1
                   /\ \E answer \in {Acknowledged, FetchError} :
                         IF answer.kind = "raise"
                         THEN ConstructorRaised(answer) /\ UNCHANGED self_soup
                         ELSE /\ self_soup' = [url |-> URL_TEMPLATE, page |-> d1.page]
                              /\ pc' = "start"
                              /\ UNCHANGED result
    /\ UNCHANGED <<call, show_progressbar, crawlVars, sinkVars, stdout,
                   html_check, as_connector>>

\* get_articles, lines 491-503: the guard, the locals, the arguments of the
\* resolution and the start of the listing loop
get_articles_begin ==
    /\ pc = "start" /\ call = "get_articles"
    /\ IF NoTagDict(tag_dict)
       THEN /\ Finish(Raise("Exception"))
            /\ UNCHANGED <<gp_args, page_iter, pages_list, articles_url, art_idx,
                           articleVars, stdout>>
       ELSE /\ title_return' = None
            /\ content_return' = None
            /\ banner_return' = None
            /\ image_return' = None
            /\ contents' = List(<<>>)
            /\ diff' = List(<<>>)
            /\ UNCHANGED soup_sep
            /\ IF MissingKey(tag_dict, PageKeys).kind = "raise"
               THEN /\ ResolutionRaised
                    /\ UNCHANGED <<gp_args, page_iter, pages_list>>
               ELSE LET args == [start_page |-> tag_dict.val["start_page"],
                                 end_page |-> tag_dict.val["end_page"],
                                 step_page |-> tag_dict.val["step_page"],
                                 a_class |-> tag_dict.val["a_class_in_PageList"],
                                 custom_pageindex_list |->
                                     tag_dict.val["custom_pageindex_list"]]
                        it == PageIndices(args, show_progressbar)
                    IN  /\ gp_args' = args
                        /\ pages_list' = List(<<>>)
                        /\ IF it.kind = "raise"
                           THEN ResolutionRaised /\ UNCHANGED page_iter
                           ELSE /\ page_iter' = it.val
                                /\ pc' = "pages_loop"
                                /\ UNCHANGED <<articles_url, art_idx, stdout, result>>
    /\ UNCHANGED <<call, tag_dict, show_progressbar, fetched>>
    /\ UNCHANGED <<sinkVars, setupVars, driver>>

\* get_pages_url_list called by the user, lines 385-398: the start of the
\* listing loop
get_pages_url_list_begin ==
    /\ pc = "start" /\ call = "get_pages_url_list"
    /\ pages_list' = List(<<>>)
    /\ LET it == PageIndices(gp_args, show_progressbar)
       IN  IF it.kind = "raise"
           THEN Finish(it) /\ UNCHANGED page_iter
           ELSE page_iter' = it.val /\ pc' = "pages_loop" /\ UNCHANGED result
    /\ UNCHANGED <<call, tag_dict, show_progressbar, gp_args, articles_url, art_idx,
                   articleVars, stdout, fetched>>
    /\ UNCHANGED <<sinkVars, setupVars, driver>>

\* one pass of the listing loop, lines 388-395 (399-405, 409-415, 419-425):
\* format the URL, fetch the page, resolve and collect its anchors
listing_page ==
    /\ pc = "pages_loop" /\ page_iter # <<>>
    /\ LET url == Format(URL_TEMPLATE, Head(page_iter)) IN
       \E got \in _local_web_scraping("listing", url) :
          LET served == got.served IN
          /\ fetched' = Append(fetched, [kind |-> "listing", url |-> url,
                                         page |-> got.page, served |-> served])
          /\ driver' = got.driver
          /\ IF served.kind = "raise"
             THEN /\ UNCHANGED <<page_iter, pages_list>>
                  /\ IF call = "get_articles"
                     THEN ResolutionRaised
                     ELSE Finish(served) /\ UNCHANGED <<articles_url, art_idx, stdout>>
             ELSE /\ page_iter' = Tail(page_iter)
                  /\ pages_list' = List(pages_list.val \o CollectHrefs(url, served.val))
                  /\ UNCHANGED <<articles_url, art_idx, stdout, result, pc>>
    /\ UNCHANGED <<call, tag_dict, show_progressbar, gp_args, articleVars>>
    /\ UNCHANGED <<sinkVars, setupVars>>

\* line 427: return list(set(pages_list)), to the user or to get_articles
\* (line 502), which then starts the article loop
pages_return ==
    /\ pc = "pages_loop" /\ page_iter = <<>>
    /\ \E q \in DedupLists(pages_list.val) :
          /\ IF call = "get_articles"
             THEN EnterArticleLoop(List(q))
             ELSE Finish(Ok(List(q))) /\ UNCHANGED <<articles_url, art_idx>>
    /\ UNCHANGED <<call, tag_dict, show_progressbar, gp_args, page_iter, pages_list,
                   articleVars, stdout, fetched>>
    /\ UNCHANGED <<sinkVars, setupVars, driver>>

\* one pass of the article loop, lines 508-544 (546-582)
article ==
    /\ pc = "articles_loop" /\ art_idx <= Len(ArticleIter)
    /\ LET url == ArticleIter[art_idx] IN
       \E got \in _local_web_scraping("article", url) :
          LET served == got.served
              loc == [soup_sep |-> soup_sep, title_return |-> title_return,
                      content_return |-> content_return,
                      banner_return |-> banner_return, image_return |-> image_return]
              r == ArticleBody(url, served, tag_dict, loc)
          IN  /\ fetched' = Append(fetched, [kind |-> "article", url |-> url,
                                             page |-> got.page, served |-> served])
              /\ driver' = got.driver
              /\ soup_sep' = r.loc.soup_sep
              /\ title_return' = r.loc.title_return
              /\ content_return' = r.loc.content_return
              /\ banner_return' = r.loc.banner_return
              /\ image_return' = r.loc.image_return
              /\ contents' = ContentsAfter(contents, r)
              /\ diff' = DiffAfter(diff, r, url)
    /\ art_idx' = art_idx + 1
    /\ UNCHANGED <<call, tag_dict, show_progressbar, gp_args, page_iter, pages_list,
                   articles_url, stdout, result, pc>>
    /\ UNCHANGED <<sinkVars, setupVars>>

\* lines 584-589: print the diff list and return contents
get_articles_return ==
    /\ pc = "articles_loop" /\ art_idx > Len(ArticleIter)
    /\ stdout' = Append(stdout, FailureReport(diff))
    /\ Finish(Ok(ReturnValue(contents, diff)))
    /\ UNCHANGED <<call, tag_dict, show_progressbar, gp_args, page_iter, pages_list,
                   articles_url, art_idx, articleVars, fetched>>
    /\ UNCHANGED <<sinkVars, setupVars, driver>>

(* ------------------------- insert_contents_to_mongoDB ----------------- *)

\* what the database server answers to a connection or to an insert
ServerError == [kind |-> "raise", exc |-> "PyMongoError"]

ConnectionSuccessful == [text |-> "---Connenction Successful---", arg |-> None]
InsertSuccessful == [text |-> "---Insert Successful---", arg |-> None]
ConnectionFail == [text |-> "Connection Fail", arg |-> None]

\* lines 617-622: the iterable of the insert loop
InsertIter ==
    IF show_progressbar THEN tqdm(contents_list.val) ELSE contents_list.val

\* lines 626-627: the except clause of the one try block, after which the
\* function returns None
ConnectionFailed ==
    /\ stdout' = Append(stdout, ConnectionFail)
    /\ Finish(Ok(None))

\* lines 608-615: the client, the first message, the database and the
\* collection
insert_contents_begin ==
    /\ pc = "start" /\ call = "insert_contents_to_mongoDB"
    /\ \E answer \in {Acknowledged, ServerError} :
          IF answer.kind = "raise"
          THEN ConnectionFailed /\ UNCHANGED <<client, insert_idx>>
          ELSE /\ client' = [type |-> "MongoClient"]
               /\ stdout' = Append(stdout, ConnectionSuccessful)
               /\ insert_idx' = 1
               /\ pc' = "insert_loop"
               /\ UNCHANGED result
    /\ UNCHANGED <<call, show_progressbar, crawlVars, contents_list, inserts,
                   setupVars, driver>>

\* one pass of the insert loop, lines 618-619 (621-622): insert_one raises
\* into the except clause of line 626
insert_one ==
    /\ pc = "insert_loop" /\ insert_idx <= Len(InsertIter)
    /\ \E answer \in {Acknowledged, ServerError} :
          /\ inserts' = Append(inserts, [doc |-> InsertIter[insert_idx],
                                         answer |-> answer])
          /\ IF answer.kind = "raise"
             THEN ConnectionFailed /\ UNCHANGED insert_idx
             ELSE /\ insert_idx' = insert_idx + 1
                  /\ UNCHANGED <<stdout, result, pc>>
    /\ UNCHANGED <<call, show_progressbar, crawlVars, contents_list, client,
                   setupVars, driver>>

\* line 624: the last message, and the function returns None
insert_contents_return ==
    /\ pc = "insert_loop" /\ insert_idx > Len(InsertIter)
    /\ stdout' = Append(stdout, InsertSuccessful)
    /\ Finish(Ok(None))
    /\ UNCHANGED <<call, show_progressbar, crawlVars, sinkVars, setupVars, driver>>

(* ---------------------------- specification --------------------------- *)

\* the lists of records insert_contents_to_mongoDB is called with
SinkRecords ==
    { [url |-> HrefAbsA, category |-> CATEGORY, title |-> TextHi,
       owner_source |-> OWNER_SOURCE, content |-> TextCD, banner |-> None,
       image |-> <<>>],
      [url |-> HrefRelHttp, category |-> CATEGORY, title |-> TextHi,
       owner_source |-> OWNER_SOURCE, content |-> TextCD, banner |-> Str(SrcBanner),
       image |-> <<SrcPhoto>>] }

ContentsLists ==
    UNION { [1..n -> SinkRecords] : n \in 0..MaxInsert }

\* the page ranges and configurations get_articles is called with
ArticleTagDicts ==
    {None, Dict(<<>>)}
    \cup {Dict(WebTag(1, e, s, c)) :
             e \in 0..MaxArticlePage, s \in {0, 1}, c \in {None, List(<<>>), List(<<2>>)}}
    \cup {Dict(Without(WebTag(1, 1, 1, None), k)) : k \in Keys}

\* the arguments the crawler is constructed with
Setup(h, c, d, p) ==
    [html_check |-> h, as_connector |-> c, driver |-> d, show_progressbar |-> p]

\* static mode, with a session handed in that the crawler has no use for
StaticSetups ==
    { Setup(TRUE, FALSE, WebDriver(PageGiven), p) : p \in BOOLEAN }

\* rendered mode: with and without as_connector, with a session handed in or
\* one to be created
RenderedSetups ==
    { Setup(FALSE, c, d, p) :
        c \in BOOLEAN, d \in {None, WebDriver(PageGiven)}, p \in BOOLEAN }

ConstructorArgs == StaticSetups \cup RenderedSetups

DirectArgs ==
    [start_page : 0..MaxPage, end_page : 0..MaxPage, step_page : (-1)..MaxStep,
     a_class : {"a_class"}, custom_pageindex_list : CustomLists]

\* the calls made on a crawler in rendered mode: one complete configuration
\* and one page range
RenderedTagDicts == {Dict(WebTag(1, 1, 1, None))}
RenderedArgs ==
    {[start_page |-> 1, end_page |-> 2, step_page |-> 1, a_class |-> "a_class",
      custom_pageindex_list |-> None]}

\* the crawler is about to be constructed with the arguments a
ToConstruct(a) ==
    /\ show_progressbar = a.show_progressbar
    /\ html_check = a.html_check
    /\ as_connector = a.as_connector
    /\ driver = a.driver
    /\ pc = "new"

Init ==
    /\ \/ /\ call = "get_articles" /\ gp_args = Unbound /\ contents_list = Unbound
          /\ \E a \in ConstructorArgs :
                /\ ToConstruct(a)
                /\ tag_dict \in (IF a.html_check THEN ArticleTagDicts
                                  ELSE RenderedTagDicts)
       \/ /\ call = "get_pages_url_list" /\ tag_dict = None /\ contents_list = Unbound
          /\ \E a \in ConstructorArgs :
                /\ ToConstruct(a)
                /\ gp_args \in (IF a.html_check THEN DirectArgs ELSE RenderedArgs)
       \/ /\ call = "insert_contents_to_mongoDB" /\ tag_dict = None /\ gp_args = Unbound
          /\ contents_list \in {List(q) : q \in ContentsLists}
          /\ show_progressbar \in BOOLEAN
          /\ html_check = TRUE /\ as_connector = FALSE /\ driver = None
          /\ pc = "start"
    /\ client = Unbound
    /\ insert_idx = 0
    /\ inserts = <<>>
    /\ self_soup = Unbound
    /\ page_iter = <<>>
    /\ pages_list = Unbound
    /\ articles_url = Unbound
    /\ art_idx = 0
    /\ soup_sep = Unbound
    /\ title_return = Unbound
    /\ content_return = Unbound
    /\ banner_return = Unbound
    /\ image_return = Unbound
    /\ contents = Unbound
    /\ diff = Unbound
    /\ stdout = <<>>
    /\ result = Running
    /\ fetched = <<>>

Next ==
    \/ __init__
    \/ get_articles_begin
    \/ get_pages_url_list_begin
    \/ listing_page
    \/ pages_return
    \/ article
    \/ get_articles_return
    \/ insert_contents_begin
    \/ insert_one
    \/ insert_contents_return

Spec == Init /\ [][Next]_vars

(* ------------------------------- claims ------------------------------- *)

ArticleFetches == SelectSeq(fetched, LAMBDA f : f.kind = "article")
ListingFetches == SelectSeq(fetched, LAMBDA f : f.kind = "listing")

\* the number of positions of q that satisfy Test
Count(q, Test(_)) == Cardinality({i \in 1..Len(q) : Test(q[i])})

\* the locals as lines 494-497 leave them
FreshLocals ==
    [soup_sep |-> Unbound, title_return |-> None, content_return |-> None,
     banner_return |-> None, image_return |-> None]

\* how the extraction of one fetched article ends, taken on its own
ExpectedOutcome(f) == ArticleBody(f.url, f.served, tag_dict, FreshLocals).outcome

RecordsOf(u) == Count(contents.val, LAMBDA rec : rec.url = u)
FailuresOf(u) == Count(diff.val, LAMBDA x : x = u)

\* the resolution of the page list raises: a page key is missing, the
\* numeric range has a zero step, or a listing page cannot be fetched
ResolutionRaises ==
    /\ call = "get_articles"
    /\ Truthy(tag_dict)
    /\ \/ MissingKey(tag_dict, PageKeys).kind = "raise"
       \/ /\ MissingKey(tag_dict, PageKeys).kind = "ok"
          /\ ~Truthy(tag_dict.val["custom_pageindex_list"])
          /\ tag_dict.val["step_page"] = 0
       \/ \E i \in 1..Len(ListingFetches) : ListingFetches[i].served.kind = "raise"

\* C1: when the resolution of the page list raises, get_articles visits no
\* article and returns an empty list; no exception reaches the caller.
C1_ResolutionErrorDegrades ==
    (pc = "done" /\ ResolutionRaises) =>
        /\ result.kind = "ok"
        /\ result.val = List(<<>>)
        /\ ArticleFetches = <<>>

\* C2: get_articles attempts the resolved URLs once each, in order and to the
\* end of the list; a URL whose extraction raised is once in diff and has no
\* record, a skipped URL (empty title) is in neither list, a URL extracted
\* with success has one record and is not in diff; the call then returns.
C2_EachUrlRoutedOnce ==
    (call = "get_articles" /\ articles_url.type = "list") =>
        LET urls == articles_url.val
            AF == ArticleFetches
        IN  /\ \A i, j \in 1..Len(urls) : urls[i] = urls[j] => i = j
            /\ Len(AF) <= Len(urls)
            /\ \A i \in 1..Len(AF) :
                  /\ AF[i].url = urls[i]
                  /\ ExpectedOutcome(AF[i]) = "fail" =>
                        FailuresOf(urls[i]) = 1 /\ RecordsOf(urls[i]) = 0
                  /\ ExpectedOutcome(AF[i]) = "skip" =>
                        FailuresOf(urls[i]) = 0 /\ RecordsOf(urls[i]) = 0
                  /\ ExpectedOutcome(AF[i]) = "record" =>
                        FailuresOf(urls[i]) = 0 /\ RecordsOf(urls[i]) = 1
                  /\ ( /\ AF[i].served.kind = "ok"
                       /\ MissingKey(tag_dict, ContentKeys).kind = "ok"
                       /\ _local_get_content_sep(AF[i].served.val).kind = "ok"
                       /\ _local_get_content_sep(AF[i].served.val).val.title.val = <<>> )
                     => FailuresOf(urls[i]) = 0 /\ RecordsOf(urls[i]) = 0
            /\ Len(contents.val) + Len(diff.val) <= Len(AF)
            /\ pc = "done" => result.kind = "ok" /\ Len(AF) = Len(urls)

\* the first of two URLs failed and the second one was still extracted
C2_Witness ==
    /\ pc = "done" /\ call = "get_articles" /\ articles_url.type = "list"
    /\ Len(articles_url.val) = 2
    /\ diff.val = <<articles_url.val[1]>>
    /\ Len(contents.val) = 1
    /\ contents.val[1].url = articles_url.val[2]

\* C3: every record of the result has a non-empty title and a non-empty
\* content.
C3_RecordsNonEmpty ==
    contents.type = "list" =>
        \A i \in 1..Len(contents.val) :
            contents.val[i].title # <<>> /\ contents.val[i].content # <<>>

\* C4: no record's image list contains the record's banner.
C4_BannerNotInImages ==
    contents.type = "list" =>
        \A i \in 1..Len(contents.val) :
            ~PyIn(contents.val[i].banner, contents.val[i].image)

\* the document has no banner (no matching img, or one without the
\* configured attribute) while its title, content and images can be extracted
\* and title and content are not empty
ReadableWithoutBanner(d) ==
    /\ \/ ~d.banner_img.found
       \/ tag_dict.val["banner_tag_in_ArticlePage"] \notin DOMAIN d.banner_img.attrs
    /\ _local_get_content_sep(d).kind = "ok"
    /\ _local_get_content_sep(d).val.title.val # <<>>
    /\ _local_get_content_sep(d).val.content.val # <<>>
    /\ _local_get_images_sep(d).kind = "ok"

\* C5: an article without banner whose title and content are non-empty gets
\* a record with banner None, and its URL is not put in diff.
C5_BannerOptional ==
    (call = "get_articles" /\ Truthy(tag_dict) /\ DOMAIN tag_dict.val = Keys) =>
        \A i \in 1..Len(ArticleFetches) :
            LET f == ArticleFetches[i]
            IN  (f.served.kind = "ok" /\ ReadableWithoutBanner(f.served.val)) =>
                    /\ \E j \in 1..Len(contents.val) :
                          /\ contents.val[j].url = f.url
                          /\ PyEq(contents.val[j].banner, None)
                    /\ FailuresOf(f.url) = 0

\* the extraction of a fetched article raised
Failed(f) == ExpectedOutcome(f) = "fail"

\* C6 as claimed: get_articles returns the pair (records, FailureList), so
\* every URL whose extraction raised is in the second component of the
\* returned value.
C6_ReturnsFailureList ==
    (pc = "done" /\ call = "get_articles" /\ result.kind = "ok") =>
        \A i \in 1..Len(ArticleFetches) :
            Failed(ArticleFetches[i]) =>
                /\ result.val.type = "tuple"
                /\ Len(result.val.val) = 2
                /\ ArticleFetches[i].url \in Range(result.val.val[2].val)

\* C6 as amended: get_articles returns the list of records alone; every URL
\* whose extraction raised is in diff, which is printed as the last
\* diagnostic line and is no part of the returned value.
C6_FailureListOnlyPrinted ==
    (pc = "done" /\ call = "get_articles" /\ result.kind = "ok") =>
        /\ result.val.type = "list"
        /\ result.val = contents
        /\ stdout # <<>>
        /\ stdout[Len(stdout)] = FailureReport(diff)
        /\ \A i \in 1..Len(ArticleFetches) :
              Failed(ArticleFetches[i]) =>
                  /\ ArticleFetches[i].url \in Range(stdout[Len(stdout)].arg.val)
                  /\ \A j \in 1..Len(result.val.val) :
                        result.val.val[j].url # ArticleFetches[i].url

\* a batch with a record and a failure has returned
C6_Witness ==
    /\ pc = "done" /\ call = "get_articles" /\ result.kind = "ok"
    /\ \E i \in 1..Len(ArticleFetches) : Failed(ArticleFetches[i])
    /\ result.val.type = "list" /\ Len(result.val.val) = 1

NoPartialBatch ==
    /\ fetched = <<>>
    /\ contents.type = "list" => contents.val = <<>>
    /\ diff.type = "list" => diff.val = <<>>

ArticleKeyMissing ==
    /\ Truthy(tag_dict)
    /\ MissingKey(tag_dict, PageKeys).kind = "ok"
    /\ DOMAIN tag_dict.val # Keys

NoDuplicates(q) == \A i, j \in 1..Len(q) : q[i] = q[j] => i = j

\* the hrefs of the listing pages served, each resolved against its page
ResolvedHrefsServed ==
    UNION { Range(CollectHrefs(ListingFetches[i].url, ListingFetches[i].served.val)) :
              i \in {k \in 1..Len(ListingFetches) : ListingFetches[k].served.kind = "ok"} }

\* C8: the list get_pages_url_list returns has no duplicates and holds, as a
\* set, the resolved hrefs of all listing pages visited.
C8_UrlSetDeduplicated ==
    /\ (call = "get_pages_url_list" /\ pc = "done" /\ result.kind = "ok") =>
          /\ NoDuplicates(result.val.val)
          /\ Range(result.val.val) = ResolvedHrefsServed
    /\ (call = "get_articles" /\ articles_url.type = "list") =>
          /\ NoDuplicates(articles_url.val)
          /\ Range(articles_url.val) = ResolvedHrefsServed

\* two listing pages with the same href on both and twice on one of them
C8_Witness ==
    /\ call = "get_pages_url_list" /\ pc = "done" /\ result.kind = "ok"
    /\ Len(ListingFetches) >= 2
    /\ Len(result.val.val) = 2
    /\ Len(pages_list.val) >= 4

NumericRangeCall ==
    /\ call = "get_pages_url_list"
    /\ gp_args.custom_pageindex_list.type = "NoneType"
    /\ gp_args.step_page > 0

Completed == pc = "done" /\ result.kind = "ok"

\* C9 as claimed: for a numeric range with step > 0, also when end < start,
\* the number of listing pages fetched is floor((end-start)/step) + 1.
C9_FetchCountFormula ==
    (NumericRangeCall /\ Completed) =>
        Len(ListingFetches) =
            ((gp_args.end_page - gp_args.start_page) \div gp_args.step_page) + 1

\* C9 as amended: for a numeric range with step > 0 a call that completes
\* fetches floor((end-start)/step) + 1 listing pages when end >= start and
\* none when end < start; the indices fetched are start, start+step, ...,
\* every one of them that does not exceed end.
C9_FetchCountNonNegative ==
    (NumericRangeCall /\ Completed) =>
        LET start == gp_args.start_page
            end == gp_args.end_page
            step == gp_args.step_page
            n == Len(ListingFetches)
        IN  /\ n = (IF end >= start THEN ((end - start) \div step) + 1 ELSE 0)
            /\ \A i \in 1..n :
                  /\ ListingFetches[i].url = Format(URL_TEMPLATE, start + (i - 1) * step)
                  /\ start + (i - 1) * step <= end
            /\ start + n * step > end

\* a range with step 2 whose two pages were fetched
C9_Witness ==
    /\ NumericRangeCall /\ Completed
    /\ gp_args.step_page = 2
    /\ Len(ListingFetches) = 2

\* C10: when a page-index list is given (not None, the empty list included),
\* the listing pages fetched are those of the list, in order, and the numeric
\* range is not used.
C10_ExplicitListPrecedence ==
    (call = "get_pages_url_list" /\ gp_args.custom_pageindex_list.type = "list") =>
        LET lst == gp_args.custom_pageindex_list.val
        IN  /\ Len(ListingFetches) <= Len(lst)
            /\ \A i \in 1..Len(ListingFetches) :
                  i <= Len(lst) => ListingFetches[i].url = Format(URL_TEMPLATE, lst[i])
            /\ ( /\ pc = "done"
                 /\ \A i \in 1..Len(ListingFetches) : ListingFetches[i].served.kind = "ok" )
               => result.kind = "ok" /\ Len(ListingFetches) = Len(lst)

\* C11: every href of a listing page that does not begin with a URL scheme
\* (a relative path whose first characters are 'http' included) is added as
\* the join of the listing page's URL and the href; an href that begins with
\* a scheme is added unchanged.
C11_RelativeHrefsJoined ==
    (call = "get_pages_url_list" /\ Completed) =>
        \A i \in 1..Len(ListingFetches) :
            LET f == ListingFetches[i]
            IN  \A k \in 1..Len(f.served.val) :
                    LET href == f.served.val[k]
                    IN  (IF HasScheme(href) THEN href ELSE urljoin(f.url, href))
                            \in Range(result.val.val)

\* C12: once the connection is made, the failure of one record's insert
\* does not abort the batch: every record of contents_list is still handed
\* to insert_one; only a failure of the connection aborts all inserts, with
\* no record inserted; in neither case does an exception reach the caller.
C12_InsertFailureIsLocal ==
    (call = "insert_contents_to_mongoDB" /\ pc = "done") =>
        /\ result = Ok(None)
        /\ client = Unbound => inserts = <<>>
        /\ client # Unbound =>
              /\ Len(inserts) = Len(contents_list.val)
              /\ \A i \in 1..Len(inserts) : inserts[i].doc = contents_list.val[i]

\* C13: the title and the content are extracted independently: whenever the
\* title selector matches an element of the document, the title taken from
\* the document is the space-joined stripped text of that element, whether
\* the content-area selector matches or not; the text of <title> is taken
\* only when the title selector matches nothing, and when <title> is missing
\* as well the article fails.
C13_TitleIndependentOfContent ==
    ( /\ call = "get_articles"
      /\ soup_sep # Unbound
      /\ MissingKey(tag_dict, ContentKeys).kind = "ok" ) =>
        LET last == ArticleFetches[Len(ArticleFetches)]
        IN  /\ soup_sep.title_el.found =>
                  title_return = Str(Join(soup_sep.title_el.stripped_strings))
            /\ (~soup_sep.title_el.found /\ soup_sep.head_title.found
                    /\ _local_get_content_sep(soup_sep).kind = "ok") =>
                  title_return = Str(soup_sep.head_title.text)
            /\ ( /\ ~soup_sep.title_el.found /\ ~soup_sep.head_title.found
                 /\ last.served = Ok(soup_sep) ) =>
                  FailuresOf(last.url) = 1

\* the content-area selector matches nothing in the document, while the
\* title extracted from it is not empty and its banner is present
ContentAreaMissing(d) ==
    /\ ~d.content_el.found
    /\ _local_get_content_sep(d).kind = "ok"
    /\ _local_get_content_sep(d).val.title.val # <<>>
    /\ d.banner_img.found
    /\ tag_dict.val["banner_tag_in_ArticlePage"] \in DOMAIN d.banner_img.attrs

\* C14: an article whose content-area selector matches nothing, while its
\* title is non-empty and its banner present, takes its content from the
\* first element of the document: it gets a record when that content is
\* non-empty and is skipped when it is empty, and its URL is never put in
\* diff.
C14_ContentFallbackNotFailure ==
    (call = "get_articles" /\ Truthy(tag_dict) /\ DOMAIN tag_dict.val = Keys) =>
        \A i \in 1..Len(ArticleFetches) :
            LET f == ArticleFetches[i]
            IN  (f.served.kind = "ok" /\ ContentAreaMissing(f.served.val)) =>
                    LET fallback == Join(Split(f.served.val.first_el.text))
                    IN  /\ FailuresOf(f.url) = 0
                        /\ fallback # <<>> =>
                              \E j \in 1..Len(contents.val) :
                                  /\ contents.val[j].url = f.url
                                  /\ contents.val[j].content = fallback
                        /\ fallback = <<>> => RecordsOf(f.url) = 0

\* what the extraction steps yield from document d alone, as a record for url
RecordFrom(url, d) ==
    LET cs == _local_get_content_sep(d)
        b == _local_get_banner_image_sep(d, tag_dict.val["banner_tag_in_ArticlePage"])
        im == _local_get_images_sep(d)
    IN  [url |-> url, category |-> CATEGORY, title |-> cs.val.title.val,
         owner_source |-> OWNER_SOURCE, content |-> Join(cs.val.content.val),
         banner |-> b.val, image |-> RemoveBanner(b.val, im.val).val]

\* C16: every record of contents carries the URL of one article fetch and
\* the title, content, banner and images extracted from the document served
\* to that same fetch, with the constant category and owner_source; nothing
\* of an earlier article is in it, whatever happened to the earlier articles.
C16_RecordsFromOwnDocument ==
    (call = "get_articles" /\ contents.type = "list") =>
        \A j \in 1..Len(contents.val) :
            \E i \in 1..Len(ArticleFetches) :
                LET f == ArticleFetches[i]
                IN  /\ f.url = contents.val[j].url
                    /\ f.served.kind = "ok"
                    /\ _local_get_content_sep(f.served.val).kind = "ok"
                    /\ _local_get_banner_image_sep(f.served.val,
                           tag_dict.val["banner_tag_in_ArticlePage"]).kind = "ok"
                    /\ _local_get_images_sep(f.served.val).kind = "ok"
                    /\ contents.val[j] = RecordFrom(f.url, f.served.val)

\* the first of two articles left a title and a banner in the locals and then
\* failed; the second one got a record with another title and another banner
C16_Witness ==
    /\ pc = "done" /\ call = "get_articles" /\ contents.type = "list"
    /\ Len(ArticleFetches) = 2
    /\ Len(contents.val) = 1
    /\ LET f == ArticleFetches[1]
           rec == contents.val[1]
       IN  /\ rec.url = ArticleFetches[2].url
           /\ f.served.kind = "ok"
           /\ ExpectedOutcome(f) = "fail"
           /\ _local_get_content_sep(f.served.val).kind = "ok"
           /\ _local_get_content_sep(f.served.val).val.title.val # rec.title
           /\ _local_get_banner_image_sep(f.served.val,
                  tag_dict.val["banner_tag_in_ArticlePage"]).kind = "ok"
           /\ ~PyEq(_local_get_banner_image_sep(f.served.val,
                        tag_dict.val["banner_tag_in_ArticlePage"]).val, rec.banner)

\* the URLs of the fetches made so far, the constructor's first
RequestedUrls ==
    <<URL_TEMPLATE>> \o [i \in 1..Len(fetched) |-> fetched[i].url]

\* every document that was read is the document of the page p(read)
ReadsAreOf(p(_)) ==
    /\ self_soup # Unbound => self_soup.page = p(self_soup)
    /\ \A i \in 1..Len(fetched) :
          fetched[i].served.kind = "ok" => fetched[i].page = p(fetched[i])

\* C15: in rendered mode with as_connector the session is never navigated
\* (no driver.get by the constructor, a listing fetch or an article fetch)
\* and every fetch reads the session's current document, unchanged; in
\* rendered mode without as_connector every fetch navigates the session to
\* the URL requested, once, before it reads the document, so that the
\* document read is the one of the URL just requested; in static mode the
\* session is never navigated.
C15_NavigationByConnectorFlag ==
    (call # "insert_contents_to_mongoDB" /\ pc # "new") =>
        /\ pc = "raised" => fetched = <<>> /\ self_soup = Unbound
        /\ html_check =>
              /\ driver = WebDriver(PageGiven)
              /\ ReadsAreOf(LAMBDA r : r.url)
        /\ (~html_check /\ as_connector /\ ~NoDriver(driver)) =>
              /\ driver.gets = <<>>
              /\ driver.page \in {Blank, PageGiven}
              /\ ReadsAreOf(LAMBDA r : driver.page)
              /\ \A i, j \in 1..Len(fetched) :
                    ( /\ fetched[i].kind = fetched[j].kind
                      /\ fetched[i].served.kind = "ok"
                      /\ fetched[j].served.kind = "ok" )
                        => fetched[i].served = fetched[j].served
        /\ (~html_check /\ ~as_connector /\ ~NoDriver(driver)) =>
              /\ driver.gets = RequestedUrls
              /\ driver.page = driver.gets[Len(driver.gets)]
              /\ ReadsAreOf(LAMBDA r : r.url)
        /\ (~html_check /\ NoDriver(driver)) =>
              /\ result = Raise("WebDriverException")
              /\ self_soup = Unbound /\ fetched = <<>>

\* a call of get_articles in rendered mode without as_connector that read a
\* listing page and an article page: three navigations with the constructor's
C15_Witness ==
    /\ pc = "done" /\ call = "get_articles"
    /\ ~html_check /\ ~as_connector /\ ~NoDriver(driver)
    /\ Len(driver.gets) = 3
    /\ Len(ListingFetches) = 1 /\ ListingFetches[1].served.kind = "ok"
    /\ Len(ArticleFetches) = 1 /\ ArticleFetches[1].served.kind = "ok"
    /\ driver.page = ArticleFetches[1].url

\* a call of get_articles in rendered mode with as_connector, on a session
\* handed in, that read its listing and its articles from the page the
\* session was on
C15_ConnectorReached ==
    /\ pc = "done" /\ call = "get_articles"
    /\ ~html_check /\ as_connector /\ ~NoDriver(driver)
    /\ driver.page = PageGiven
    /\ Len(ArticleFetches) = 2
    /\ \A i \in 1..2 : ArticleFetches[i].served.kind = "ok"

====
